---- MODULE Spec2Model ----
(***************************************************************************)
(* Health-Sathi: the IndexedDB service layer (services/dbService) and the  *)
(* zustand application store (store.ts) as one state machine.              *)
(*                                                                         *)
(* Every asynchronous service call is a task.  A task advances one         *)
(* macrotask at a time: its delay() timer fires, its indexedDB.open        *)
(* request is answered, its IndexedDB requests are served.  Promise        *)
(* continuations (the code after an await) run in the macrotask that       *)
(* settles the promise, so they are part of the same step.                 *)
(***************************************************************************)
EXTENDS Integers, Sequences, FiniteSets, TLC

\* ------------------------------------------------------------------ bounds
\* Number of service calls issued in one behaviour.
MaxTasks == 2
\* Number of calls issued in one behaviour of the application store.
MaxAppTasks == 3

TaskIds == 1..(IF MaxTasks > MaxAppTasks THEN MaxTasks ELSE MaxAppTasks)

\* ------------------------------------------------------- program constants
DB_VERSION == 1
STORE_USERS == "users"
STORE_REPORTS == "reports"
StoreNames == {STORE_USERS, STORE_REPORTS}

\* UserRole members used by the code.
PATIENT == "PATIENT"
DOCTOR == "DOCTOR"
GUEST == "GUEST"

\* JavaScript's undefined (an absent optional argument).
Undefined == "undefined"

\* ------------------------------------------------------------ input values
\* The string order of the primary keys (the order an index scan with one
\* key value returns its records in).
KeyOrder == <<"r1", "r2", "r3", "user_1", "user_2", "user_3", "user_4", "user_5",
              "user_6", "user_7", "user_8", "user_9">>
GoodPass == "pw"
Passwords == {GoodPass, "bad"}
PENDING == "pending"
REVIEWED == "reviewed"

\* Records earlier sessions may have left in the database: what registerUser
\* and saveReportToDb wrote for two users and three reports.
SeedUsers ==
    { [_id |-> "user_1", email |-> "a@x.com", password |-> GoodPass, name |-> "Ann",
       role |-> PATIENT, createdAt |-> 1, bloodGroup |-> "Unknown", age |-> "",
       height |-> "", weight |-> "", phone |-> "", dob |-> "", specialization |-> ""],
      [_id |-> "user_2", email |-> "d@x.com", password |-> GoodPass, name |-> "Dev",
       role |-> DOCTOR, createdAt |-> 2, bloodGroup |-> "Unknown", age |-> "",
       height |-> "", weight |-> "", phone |-> "", dob |-> "", specialization |-> "cardio"] }

SeedReports ==
    { [id |-> "r1", userId |-> "user_1", targetDoctorId |-> "user_2", timestamp |-> 100,
       status |-> PENDING, updatedAt |-> 3],
      [id |-> "r2", userId |-> "user_1", targetDoctorId |-> "user_3", timestamp |-> 200,
       status |-> PENDING, updatedAt |-> 4],
      [id |-> "r3", userId |-> "user_4", targetDoctorId |-> "user_2", timestamp |-> 200,
       status |-> PENDING, updatedAt |-> 5] }

\* Readings of Date.now() taken by the earlier sessions.
SeedClock == Cardinality(SeedUsers) + Cardinality(SeedReports)

\* The arguments handed to registerUser.
RegisterInputs ==
    { [email |-> "a@x.com", pass |-> GoodPass, name |-> "Ann", role |-> PATIENT,
       specialization |-> Undefined],
      [email |-> "d@x.com", pass |-> GoodPass, name |-> "Dev", role |-> DOCTOR,
       specialization |-> "cardio"] }

\* The arguments handed to loginUser.
LoginInputs == { [email |-> "a@x.com", pass |-> pw] : pw \in Passwords }

\* The HealthReport values handed to saveReportToDb.
ReportInputs ==
    { [id |-> "r1", userId |-> "user_1", targetDoctorId |-> "user_3", timestamp |-> 300,
       status |-> PENDING],
      [id |-> "r3", userId |-> "user_1", targetDoctorId |-> "user_2", timestamp |-> 200,
       status |-> PENDING] }

\* The ids and Partial<HealthReport> values handed to updateReportInDb.
ReportIds == {"r1"}
ReportUpdates ==
    { [status |-> REVIEWED, doctorNotes |-> "ok"], [targetDoctorId |-> "user_3"] }

\* The ids and Partial<UserProfile> values handed to updateUserInDb.
UserIds == {"user_1", "user_6"}
UserUpdates == { [name |-> "Bea", phone |-> "555"], [role |-> DOCTOR] }

\* The keys handed to the fetches.
PatientIds == {"user_1"}
DoctorIds == {"user_2"}

\* ------------------------------------------------------------------- state
VARIABLES
    dbVersion,          \* version of HealthSathiDB on disk; 0 = never opened
    objectStoreNames,   \* the object stores that exist in the database
    usersStore,         \* object store 'users':   _id -> record
    reportsStore,       \* object store 'reports': id  -> record
    task,               \* the service calls: TaskIds -> call record
    timers,             \* pending delay() timers, in the order they were set
    openQ,              \* pending indexedDB.open requests, in request order
    txQ,                \* live transactions per object store, in creation order
    clock,              \* Date.now() / Math.random(): readings taken so far
    writeLog,           \* history: per store and key, the calls that wrote it, in order
    currentUserRole,    \* AppState
    currentPatientName,
    currentUserId,
    currentUserProfile,
    reports,
    availableDoctors,
    isLoading

dbVars == <<dbVersion, objectStoreNames, usersStore, reportsStore>>
schedVars == <<task, timers, openQ, txQ, clock, writeLog>>
appVars == <<currentUserRole, currentPatientName, currentUserId, currentUserProfile,
             reports, availableDoctors, isLoading>>
vars == <<dbVersion, objectStoreNames, usersStore, reportsStore, task, timers, openQ, txQ, clock, writeLog,
          currentUserRole, currentPatientName, currentUserId, currentUserProfile,
          reports, availableDoctors, isLoading>>

\* --------------------------------------------------------- pure operators
\* { ...data, ...updates }
MergeUpdatesFirst(data, updates) ==
    [f \in DOMAIN data \cup DOMAIN updates |->
        IF f \in DOMAIN data THEN data[f] ELSE updates[f]]

Merge(data, updates) ==
    [f \in DOMAIN data \cup DOMAIN updates |->
        IF f \in DOMAIN updates THEN updates[f] ELSE data[f]]

\* The record without field f.
Without(r, f) == [g \in DOMAIN r \ {f} |-> r[g]]

\* store.put(record): insert or replace by primary key.
Put(store, key, record) ==
    [k \in DOMAIN store \cup {key} |-> IF k = key THEN record ELSE store[k]]

Range(s) == { s[i] : i \in DOMAIN s }

IndexOf(s, x) == CHOOSE i \in DOMAIN s : s[i] = x

Remove(s, x) == SelectSeq(s, LAMBDA y : y # x)

\* The keys of a set in primary-key order.
RECURSIVE InKeyOrder(_, _)
InKeyOrder(keys, i) ==
    IF i > Len(KeyOrder) THEN <<>>
    ELSE (IF KeyOrder[i] \in keys THEN <<KeyOrder[i]>> ELSE <<>>) \o InKeyOrder(keys, i + 1)

\* index.getAll(value): the records whose field equals value, by primary key.
IndexGetAll(store, field, value) ==
    LET keys == { k \in DOMAIN store : field \in DOMAIN store[k] /\ store[k][field] = value }
        order == InKeyOrder(keys, 1)
    IN  [i \in DOMAIN order |-> store[order[i]]]

\* index.get(value): the first record whose field equals value, or none.
IndexGetKeys(store, field, value) ==
    { k \in DOMAIN store : field \in DOMAIN store[k] /\ store[k][field] = value }

\* Array.prototype.sort with (a, b) => b.timestamp - a.timestamp: a stable
\* sort, newest first.  InsertByTimestamp puts r behind every element that is
\* not older than r.
InsertAscending(s, r) ==
    LET before == SelectSeq(s, LAMBDA x : x.timestamp <= r.timestamp)
        after == SelectSeq(s, LAMBDA x : x.timestamp > r.timestamp)
    IN  before \o <<r>> \o after

InsertByTimestamp(s, r) ==
    LET before == SelectSeq(s, LAMBDA x : x.timestamp >= r.timestamp)
        after == SelectSeq(s, LAMBDA x : x.timestamp < r.timestamp)
    IN  before \o <<r>> \o after

RECURSIVE SortByTimestampDesc(_)
SortByTimestampDesc(s) ==
    IF s = <<>> THEN <<>>
    ELSE InsertByTimestamp(SortByTimestampDesc(SubSeq(s, 1, Len(s) - 1)), s[Len(s)])

\* "user_" + Date.now() + Math.random()...: a fresh key per reading.
GenUserId(n) == KeyOrder[3 + n]

\* ------------------------------------------------------------------ tasks
\* pc of a call: idle (not issued), delay (in delay(ms)), open / openAdd
\* (awaiting openDB), check / login / add / get / put / getAll / save (a
\* request placed in a live transaction), done (promise settled), hung
\* (promise that nothing can settle any more).
IdleTask ==
    [op |-> "none", caller |-> "none", pc |-> "idle", args |-> <<>>, ms |-> 0,
     data |-> <<>>, result |-> <<>>, outcome |-> "pending", error |-> "", before |-> {}]

RequestPcs == {"check", "login", "add", "get", "put", "getAll", "save"}

ReportOps == {"saveReportToDb", "fetchPatientReports", "fetchReportsForSpecificDoctor",
              "updateReportInDb"}
MergeOps == {"updateUserInDb", "updateReportInDb"}

\* The object store a call's transaction is scoped to.
StoreOf(op) == IF op \in ReportOps THEN STORE_REPORTS ELSE STORE_USERS

\* The IDBTransactionMode the call opens its transaction with.
Mode(pc) == IF pc \in {"check", "login", "getAll"} THEN "readonly" ELSE "readwrite"

\* The request a call places once openDB has resolved.
FirstRequest(op, pc) ==
    CASE pc = "openAdd" -> "add"
      [] op = "registerUser" -> "check"
      [] op = "loginUser" -> "login"
      [] op \in MergeOps -> "get"
      [] op = "saveReportToDb" -> "save"
      [] OTHER -> "getAll"

\* Whether a rejection of openDB reaches the call's promise: the calls that
\* await openDB() (inside try/catch or an async body) reject; the calls that
\* use openDB().then(...) inside new Promise(...) have no rejection handler.
OpenErrorRejects(op, pc) ==
    \/ op \in MergeOps
    \/ op = "saveReportToDb"
    \/ pc = "openAdd"

Pending(t) == task[t].pc \notin {"idle", "done", "hung"}
Resolved(t) == task[t].pc = "done" /\ task[t].outcome = "resolved"
Rejected(t) == task[t].pc = "done" /\ task[t].outcome = "rejected"

\* A variant of TimerDue: pending timers fire in any order.
TimerDueAny(t) == t \in Range(timers)

\* setTimeout: of two pending timers the one set first fires first unless
\* the later one has a shorter delay.
TimerDue(t) ==
    \A i \in 1..(IndexOf(timers, t) - 1) : task[timers[i]].ms > task[t].ms

\* A variant of CanRun: requests are served as soon as they are placed.
CanRunUnordered(t) == \E s \in StoreNames : t \in Range(txQ[s])

\* IndexedDB transaction scheduling: a transaction is started when every
\* transaction created before it on the same object store has finished,
\* except that read-only transactions run together.
CanRun(t) ==
    LET q == txQ[StoreOf(task[t].op)]
    IN  /\ t \in Range(q)
        /\ \A i \in 1..(IndexOf(q, t) - 1) :
              Mode(task[t].pc) = "readonly" /\ Mode(task[q[i]].pc) = "readonly"

TheStore(s) == IF s = STORE_USERS THEN usersStore ELSE reportsStore

\* ------------------------------------------------- application store, part 1
\* A variant of AppOnSettle (defined below) in which loadReports drops what
\* it fetched and keeps the collection it held.
AppOnSettleKeep(t, outcome, result) ==
    CASE task[t].caller = "loadReports" ->
            /\ isLoading' = FALSE
            /\ UNCHANGED <<currentUserRole, currentPatientName, currentUserId,
                           currentUserProfile, reports, availableDoctors>>
      [] OTHER -> UNCHANGED appVars

\* A variant of AppOnSettle in which a failed fetch empties what was held.
AppOnSettleClear(t, outcome, result) ==
    CASE task[t].caller = "loadReports" ->
            /\ reports' = IF outcome = "resolved" THEN result ELSE <<>>
            /\ isLoading' = FALSE
            /\ UNCHANGED <<currentUserRole, currentPatientName, currentUserId,
                           currentUserProfile, availableDoctors>>
      [] task[t].caller = "loadDoctors" ->
            /\ availableDoctors' = IF outcome = "resolved" THEN result ELSE <<>>
            /\ UNCHANGED <<currentUserRole, currentPatientName, currentUserId,
                           currentUserProfile, reports, isLoading>>
      [] OTHER -> UNCHANGED appVars

\* A variant of AppOnSettle in which a failed updateReportStatus puts the
\* stored report back into the held collection.
AppOnSettleRollback(t, outcome, result) ==
    CASE task[t].caller = "loadReports" ->
            /\ reports' = IF outcome = "resolved" THEN result ELSE reports
            /\ isLoading' = FALSE
            /\ UNCHANGED <<currentUserRole, currentPatientName, currentUserId,
                           currentUserProfile, availableDoctors>>
      [] task[t].caller = "loadDoctors" ->
            /\ availableDoctors' = IF outcome = "resolved" THEN result ELSE availableDoctors
            /\ UNCHANGED <<currentUserRole, currentPatientName, currentUserId,
                           currentUserProfile, reports, isLoading>>
      [] task[t].caller = "updateReportStatus" /\ outcome = "rejected" ->
            /\ reports' = [i \in DOMAIN reports |->
                              IF reports[i].id \in DOMAIN reportsStore
                              THEN reportsStore[reports[i].id] ELSE reports[i]]
            /\ UNCHANGED <<currentUserRole, currentPatientName, currentUserId,
                           currentUserProfile, availableDoctors, isLoading>>
      [] OTHER -> UNCHANGED appVars

\* What the store action that awaits call t does when the call settles:
\* loadReports sets the fetched reports (try) or logs (catch) and always
\* clears isLoading (finally); loadDoctors sets the doctors or logs;
\* updateReportStatus and updateProfile log a failure and do nothing else.
AppOnSettle(t, outcome, result) ==
    CASE task[t].caller = "loadReports" ->
            /\ reports' = IF outcome = "resolved" THEN result ELSE reports
            /\ isLoading' = FALSE
            /\ UNCHANGED <<currentUserRole, currentPatientName, currentUserId,
                           currentUserProfile, availableDoctors>>
      [] task[t].caller = "loadDoctors" ->
            /\ availableDoctors' = IF outcome = "resolved" THEN result ELSE availableDoctors
            /\ UNCHANGED <<currentUserRole, currentPatientName, currentUserId,
                           currentUserProfile, reports, isLoading>>
      [] OTHER -> UNCHANGED appVars

\* Whether a rejection of call t reaches the caller of the function that
\* awaits it: a service function called directly rejects to its caller;
\* loadReports, loadDoctors, updateReportStatus and updateProfile await
\* inside try/catch and only log the error.
Propagates(t) == Rejected(t) /\ task[t].caller = "direct"

\* ------------------------------------------------------------ call steps
\* The call settles: its promise resolves with result or rejects with error.
Settle(t, outcome, error, result) ==
    /\ task' = [task EXCEPT ![t].pc = "done", ![t].outcome = outcome,
                            ![t].error = error, ![t].result = result]
    /\ AppOnSettle(t, outcome, result)

\* The transaction of t finishes (commits or aborts).
EndTx(t) == txQ' = [txQ EXCEPT ![StoreOf(task[t].op)] = Remove(@, t)]

\* A service function is called: it runs up to its await delay(ms).
Start(t, op, caller, args, ms) ==
    /\ task[t].pc = "idle"
    /\ \A u \in TaskIds : u < t => task[u].pc # "idle"
    /\ task' = [task EXCEPT ![t] =
                    [op |-> op, caller |-> caller, pc |-> "delay", args |-> args, ms |-> ms,
                     data |-> <<>>, result |-> <<>>, outcome |-> "pending", error |-> "",
                     before |-> IF caller = "direct" THEN {}
                                ELSE { u \in TaskIds : task[u].pc = "done" }]]
    /\ timers' = Append(timers, t)
    /\ UNCHANGED <<openQ, txQ, clock, writeLog>>
    /\ UNCHANGED dbVars

\* delay(ms) elapses; the call runs up to openDB().  saveReportToDb builds
\* reportDoc = { ...report, updatedAt } first.
DelayElapsed(t) ==
    /\ task[t].pc = "delay"
    /\ TimerDue(t)
    /\ timers' = Remove(timers, t)
    /\ openQ' = Append(openQ, t)
    /\ IF task[t].op = "saveReportToDb"
       THEN /\ task' = [task EXCEPT ![t].pc = "open",
                                    ![t].data = Merge(task[t].args.report, [updatedAt |-> clock])]
            /\ clock' = clock + 1
       ELSE /\ task' = [task EXCEPT ![t].pc = "open"]
            /\ UNCHANGED clock
    /\ UNCHANGED <<txQ, writeLog>>
    /\ UNCHANGED dbVars
    /\ UNCHANGED appVars

\* request.onupgradeneeded: each object store is created if the database
\* does not contain it; an existing store is left alone.
OnUpgradeNeeded(names) == names \cup {STORE_USERS, STORE_REPORTS}

\* A variant of OpenSuccess: every open recreates the object stores empty.
OpenSuccessWipe(t) ==
    /\ task[t].pc \in {"open", "openAdd"}
    /\ openQ # <<>> /\ Head(openQ) = t
    /\ openQ' = Tail(openQ)
    /\ dbVersion' = DB_VERSION
    /\ objectStoreNames' = OnUpgradeNeeded({})
    /\ usersStore' = [k \in {} |-> k]
    /\ reportsStore' = [k \in {} |-> k]
    /\ task' = [task EXCEPT ![t].pc = FirstRequest(task[t].op, task[t].pc)]
    /\ txQ' = [txQ EXCEPT ![StoreOf(task[t].op)] = Append(@, t)]
    /\ UNCHANGED <<timers, clock, writeLog>>
    /\ UNCHANGED appVars

\* indexedDB.open succeeds (after onupgradeneeded on the first open); the
\* call creates its transaction and places its first request.
OpenSuccess(t) ==
    /\ task[t].pc \in {"open", "openAdd"}
    /\ openQ # <<>> /\ Head(openQ) = t
    /\ openQ' = Tail(openQ)
    /\ dbVersion' = DB_VERSION
    /\ objectStoreNames' = IF dbVersion < DB_VERSION THEN OnUpgradeNeeded(objectStoreNames)
                                                     ELSE objectStoreNames
    /\ task' = [task EXCEPT ![t].pc = FirstRequest(task[t].op, task[t].pc)]
    /\ txQ' = [txQ EXCEPT ![StoreOf(task[t].op)] = Append(@, t)]
    /\ UNCHANGED <<usersStore, reportsStore, timers, clock, writeLog>>
    /\ UNCHANGED appVars

\* indexedDB.open fails: request.onerror rejects openDB's promise.
OpenError(t) ==
    /\ task[t].pc \in {"open", "openAdd"}
    /\ openQ # <<>> /\ Head(openQ) = t
    /\ openQ' = Tail(openQ)
    /\ IF OpenErrorRejects(task[t].op, task[t].pc)
       THEN Settle(t, "rejected", "OpenError", <<>>)
       ELSE /\ task' = [task EXCEPT ![t].pc = "hung"]
            /\ UNCHANGED appVars
    /\ UNCHANGED <<timers, txQ, clock, writeLog>>
    /\ UNCHANGED dbVars

\* A request fails in the engine: req.onerror / transaction.onerror reject,
\* the transaction aborts and nothing is written.
RequestError(t) ==
    /\ task[t].pc \in RequestPcs
    /\ CanRun(t)
    /\ EndTx(t)
    /\ Settle(t, "rejected", "RequestError", <<>>)
    /\ UNCHANGED <<timers, openQ, clock, writeLog>>
    /\ UNCHANGED dbVars

\* ------------------------------------------------------- request handlers
\* keyPath of each object store.
KeyPath(s) == IF s = STORE_USERS THEN "_id" ELSE "id"

\* The record is written under its key; the rest of the database is untouched.
WriteStore(s, rec, t) ==
    /\ IF s = STORE_USERS
       THEN usersStore' = Put(usersStore, rec[KeyPath(s)], rec) /\ UNCHANGED reportsStore
       ELSE reportsStore' = Put(reportsStore, rec[KeyPath(s)], rec) /\ UNCHANGED usersStore
    /\ writeLog' = [writeLog EXCEPT ![s] =
                        Put(@, rec[KeyPath(s)],
                            IF rec[KeyPath(s)] \in DOMAIN @ THEN Append(@[rec[KeyPath(s)]], t)
                                                            ELSE <<t>>)]
    /\ UNCHANGED <<dbVersion, objectStoreNames>>

\* A variant of AddConflict: the email index is not unique.
AddConflictKeyOnly(store, rec) == rec._id \in DOMAIN store

\* store.add on 'users' fails (ConstraintError) when the key exists or the
\* unique index 'email' already holds the record's email.
AddConflict(store, rec) ==
    \/ rec._id \in DOMAIN store
    \/ IndexGetKeys(store, "email", rec.email) # {}

\* A variant of NewUser: the name is not stored.
NewUserNoName(args, n) ==
    [_id |-> GenUserId(n), email |-> args.email, password |-> args.pass, name |-> "",
     role |-> args.role, createdAt |-> n, bloodGroup |-> "Unknown", age |-> "",
     height |-> "", weight |-> "", phone |-> "", dob |-> "",
     specialization |-> IF args.specialization = Undefined THEN "" ELSE args.specialization]

\* registerUser's newUser, with the n-th reading of Date.now()/Math.random().
NewUser(args, n) ==
    [_id |-> GenUserId(n), email |-> args.email, password |-> args.pass, name |-> args.name,
     role |-> args.role, createdAt |-> n, bloodGroup |-> "Unknown", age |-> "",
     height |-> "", weight |-> "", phone |-> "", dob |-> "",
     specialization |-> IF args.specialization = Undefined THEN "" ELSE args.specialization]

\* loginUser's returned profile.
LoginProfile(user) ==
    [uid |-> user._id, email |-> user.email, name |-> user.name, role |-> user.role,
     bloodGroup |-> user.bloodGroup, age |-> user.age, dob |-> user.dob,
     height |-> user.height, weight |-> user.weight, phone |-> user.phone,
     specialization |-> user.specialization]

\* fetchAvailableDoctors' mapping of a stored doctor.
DoctorProfile(doc) ==
    [uid |-> doc._id, name |-> doc.name, email |-> doc.email, role |-> doc.role,
     specialization |-> doc.specialization]

\* registerUser: index('email').get(email) is served; an existing user
\* throws, otherwise newUser is built and performTransaction calls openDB.
ExecCheck(t) ==
    /\ task[t].pc = "check"
    /\ CanRun(t)
    /\ EndTx(t)
    /\ IF IndexGetKeys(usersStore, "email", task[t].args.email) # {}
       THEN /\ Settle(t, "rejected", "UserExists", <<>>)
            /\ UNCHANGED <<openQ, clock>>
       ELSE /\ task' = [task EXCEPT ![t].pc = "openAdd",
                                    ![t].data = NewUser(task[t].args, clock + 1)]
            /\ clock' = clock + 1
            /\ openQ' = Append(openQ, t)
            /\ UNCHANGED appVars
    /\ UNCHANGED <<timers, writeLog>>
    /\ UNCHANGED dbVars

\* registerUser: store.add(newUser) is served and the transaction ends.
ExecAdd(t) ==
    /\ task[t].pc = "add"
    /\ CanRun(t)
    /\ EndTx(t)
    /\ IF AddConflict(usersStore, task[t].data)
       THEN /\ Settle(t, "rejected", "ConstraintError", <<>>)
            /\ UNCHANGED writeLog
            /\ UNCHANGED dbVars
       ELSE /\ WriteStore(STORE_USERS, task[t].data, t)
            /\ Settle(t, "resolved", "",
                      <<[user |-> Merge(task[t].data, [uid |-> task[t].data._id]),
                         role |-> task[t].data.role]>>)
    /\ UNCHANGED <<timers, openQ, clock>>

\* loginUser: index('email').get(email) is served.
ExecLogin(t) ==
    /\ task[t].pc = "login"
    /\ CanRun(t)
    /\ EndTx(t)
    /\ LET keys == IndexGetKeys(usersStore, "email", task[t].args.email)
           user == usersStore[InKeyOrder(keys, 1)[1]]
       IN  IF keys = {} \/ user.password # task[t].args.pass
           THEN Settle(t, "rejected", "InvalidLogin", <<>>)
           ELSE Settle(t, "resolved", "",
                       <<[user |-> LoginProfile(user), role |-> user.role, name |-> user.name]>>)
    /\ UNCHANGED <<timers, openQ, clock, writeLog>>
    /\ UNCHANGED dbVars

\* A variant of ExecGet: without a record the update is stored as a new one.
ExecGetUpsert(t) ==
    /\ task[t].pc = "get"
    /\ CanRun(t)
    /\ LET store == TheStore(StoreOf(task[t].op))
       IN  IF task[t].args.id \notin DOMAIN store
           THEN /\ EndTx(t)
                /\ WriteStore(StoreOf(task[t].op),
                              Merge([f \in {KeyPath(StoreOf(task[t].op))} |-> task[t].args.id],
                                    task[t].args.updates), t)
                /\ Settle(t, "resolved", "", <<>>)
           ELSE /\ task' = [task EXCEPT ![t].pc = "put", ![t].data = store[task[t].args.id]]
                /\ UNCHANGED <<txQ, writeLog>>
                /\ UNCHANGED dbVars
                /\ UNCHANGED appVars
    /\ UNCHANGED <<timers, openQ, clock>>

\* updateUserInDb / updateReportInDb: store.get(id) is served.  Without a
\* record the call rejects; with one, getReq.onsuccess places the put of
\* { ...data, ...updates } in the same transaction.
ExecGet(t) ==
    /\ task[t].pc = "get"
    /\ CanRun(t)
    /\ LET store == TheStore(StoreOf(task[t].op))
       IN  IF task[t].args.id \notin DOMAIN store
           THEN /\ EndTx(t)
                /\ Settle(t, "rejected", "NotFound", <<>>)
           ELSE /\ task' = [task EXCEPT ![t].pc = "put", ![t].data = store[task[t].args.id]]
                /\ UNCHANGED txQ
                /\ UNCHANGED appVars
    /\ UNCHANGED <<timers, openQ, clock, writeLog>>
    /\ UNCHANGED dbVars

\* updateUserInDb / updateReportInDb: store.put(updatedData) is served,
\* putReq.onsuccess resolves and the transaction commits.
ExecPut(t) ==
    /\ task[t].pc = "put"
    /\ CanRun(t)
    /\ EndTx(t)
    /\ WriteStore(StoreOf(task[t].op), Merge(task[t].data, task[t].args.updates), t)
    /\ Settle(t, "resolved", "", <<>>)
    /\ UNCHANGED <<timers, openQ, clock>>

\* A variant of FetchResult: every fetch resolves with the empty array.
FetchResultNone(op, args) == <<>>

\* The array a fetch resolves with.
FetchResult(op, args) ==
    CASE op = "fetchAvailableDoctors" ->
            LET docs == IndexGetAll(usersStore, "role", DOCTOR)
            IN  [i \in DOMAIN docs |-> DoctorProfile(docs[i])]
      [] op = "fetchPatientReports" ->
            SortByTimestampDesc(IndexGetAll(reportsStore, "userId", args.userId))
      [] op = "fetchReportsForSpecificDoctor" ->
            SortByTimestampDesc(IndexGetAll(reportsStore, "targetDoctorId", args.doctorId))

\* fetchAvailableDoctors / fetchPatientReports / fetchReportsForSpecificDoctor:
\* index.getAll(key) is served and req.onsuccess resolves.
ExecGetAll(t) ==
    /\ task[t].pc = "getAll"
    /\ CanRun(t)
    /\ EndTx(t)
    /\ Settle(t, "resolved", "", FetchResult(task[t].op, task[t].args))
    /\ UNCHANGED <<timers, openQ, clock, writeLog>>
    /\ UNCHANGED dbVars

\* saveReportToDb: store.put(reportDoc) is served and the transaction completes.
ExecSave(t) ==
    /\ task[t].pc = "save"
    /\ CanRun(t)
    /\ EndTx(t)
    /\ WriteStore(STORE_REPORTS, task[t].data, t)
    /\ Settle(t, "resolved", "", <<>>)
    /\ UNCHANGED <<timers, openQ, clock>>

\* ------------------------------------------------- direct service calls
registerUser(t) ==
    /\ \E args \in RegisterInputs : Start(t, "registerUser", "direct", args, 600)
    /\ UNCHANGED appVars

loginUser(t) ==
    /\ \E args \in LoginInputs : Start(t, "loginUser", "direct", args, 600)
    /\ UNCHANGED appVars

updateUserInDb(t) ==
    /\ \E uid \in UserIds, updates \in UserUpdates :
          Start(t, "updateUserInDb", "direct", [id |-> uid, updates |-> updates], 300)
    /\ UNCHANGED appVars

fetchAvailableDoctors(t) ==
    /\ Start(t, "fetchAvailableDoctors", "direct", [none |-> Undefined], 300)
    /\ UNCHANGED appVars

saveReportToDb(t) ==
    /\ \E report \in ReportInputs :
          Start(t, "saveReportToDb", "direct", [report |-> report], 400)
    /\ UNCHANGED appVars

fetchPatientReports(t) ==
    /\ \E userId \in PatientIds :
          Start(t, "fetchPatientReports", "direct", [userId |-> userId], 400)
    /\ UNCHANGED appVars

fetchReportsForSpecificDoctor(t) ==
    /\ \E doctorId \in DoctorIds :
          Start(t, "fetchReportsForSpecificDoctor", "direct", [doctorId |-> doctorId], 400)
    /\ UNCHANGED appVars

updateReportInDb(t) ==
    /\ \E reportId \in ReportIds, updates \in ReportUpdates :
          Start(t, "updateReportInDb", "direct", [id |-> reportId, updates |-> updates], 300)
    /\ UNCHANGED appVars

\* ------------------------------------------------- application store, part 2
\* The (role, name, uid, profile) values handed to setAuth; "null" is null
\* and the empty record stands for a null profile.  The patient logs in with
\* the profile loginUser returned; the other two callers pass no profile.
NullId == "null"
NullProfile == [f \in {} |-> f]
Sessions ==
    { [role |-> PATIENT, name |-> "Ann", uid |-> "user_1",
       profile |-> LoginProfile(CHOOSE u \in SeedUsers : u._id = "user_1")],
      [role |-> DOCTOR, name |-> "Dev", uid |-> "user_2", profile |-> NullProfile],
      [role |-> GUEST, name |-> "", uid |-> NullId, profile |-> NullProfile] }

\* The (id, status, notes) values handed to updateReportStatus.
StatusInputs ==
    { [id |-> "r1", status |-> REVIEWED, notes |-> "ok"],
      [id |-> "r1", status |-> "flagged", notes |-> Undefined] }

setAuth ==
    /\ \E a \in Sessions :
          /\ currentUserRole' = a.role
          /\ currentPatientName' = a.name
          /\ currentUserId' = a.uid
          /\ currentUserProfile' = a.profile
    /\ UNCHANGED <<reports, availableDoctors, isLoading>>
    /\ UNCHANGED schedVars
    /\ UNCHANGED dbVars

\* loadReports up to its first await: nothing without an identity (unless
\* the role is DOCTOR); otherwise isLoading is set and the fetch for the
\* role is called; when neither branch applies the empty list is set and
\* isLoading cleared at once.
loadReports(t) ==
    IF currentUserId = NullId /\ currentUserRole # DOCTOR
    THEN UNCHANGED vars
    ELSE IF currentUserRole = PATIENT /\ currentUserId # NullId
    THEN /\ Start(t, "fetchPatientReports", "loadReports", [userId |-> currentUserId], 400)
         /\ isLoading' = TRUE
         /\ UNCHANGED <<currentUserRole, currentPatientName, currentUserId,
                        currentUserProfile, reports, availableDoctors>>
    ELSE IF currentUserRole = DOCTOR /\ currentUserId # NullId
    THEN /\ Start(t, "fetchReportsForSpecificDoctor", "loadReports",
                  [doctorId |-> currentUserId], 400)
         /\ isLoading' = TRUE
         /\ UNCHANGED <<currentUserRole, currentPatientName, currentUserId,
                        currentUserProfile, reports, availableDoctors>>
    ELSE /\ reports' = <<>>
         /\ isLoading' = FALSE
         /\ UNCHANGED <<currentUserRole, currentPatientName, currentUserId,
                        currentUserProfile, availableDoctors>>
         /\ UNCHANGED schedVars
         /\ UNCHANGED dbVars

\* A variant of SetStatus: the in-memory report is left as it is.
SetStatusNothing(rs, id, status, notes) == rs

\* state.reports.map(r => r.id === id ? { ...r, status, doctorNotes: notes } : r)
SetStatus(rs, id, status, notes) ==
    [i \in DOMAIN rs |->
        IF rs[i].id = id THEN Merge(rs[i], [status |-> status, doctorNotes |-> notes])
                         ELSE rs[i]]

\* updateReportStatus up to its await: the optimistic update of the
\* in-memory reports, then the call of updateReportInDb.
updateReportStatus(t) ==
    \E a \in StatusInputs :
        /\ reports' = SetStatus(reports, a.id, a.status, a.notes)
        /\ Start(t, "updateReportInDb", "updateReportStatus",
                 [id |-> a.id, updates |-> [status |-> a.status, doctorNotes |-> a.notes]], 300)
        /\ UNCHANGED <<currentUserRole, currentPatientName, currentUserId,
                       currentUserProfile, availableDoctors, isLoading>>

\* loadDoctors up to its await: fetchAvailableDoctors is called.
loadDoctors(t) ==
    /\ Start(t, "fetchAvailableDoctors", "loadDoctors", [none |-> Undefined], 300)
    /\ UNCHANGED appVars

\* updateProfile up to its await: nothing without an identity or a profile;
\* otherwise the optimistic merge into the in-memory profile (and the
\* display name), then the call of updateUserInDb.
updateProfile(t) ==
    IF currentUserId = NullId \/ currentUserProfile = NullProfile
    THEN UNCHANGED vars
    ELSE \E updates \in UserUpdates :
            /\ currentUserProfile' = Merge(currentUserProfile, updates)
            /\ currentPatientName' = Merge(currentUserProfile, updates).name
            /\ Start(t, "updateUserInDb", "updateProfile",
                     [id |-> currentUserId, updates |-> updates], 300)
            /\ UNCHANGED <<currentUserRole, currentUserId, reports, availableDoctors,
                           isLoading>>

\* ---------------------------------------------------------- specifications
\* The state after construction (store.ts lines 31-39), over a database that
\* holds some of the seed users and some of the seed reports.
InitWith(userSeeds, reportSeeds) ==
    /\ \E us \in userSeeds, rs \in reportSeeds :
          /\ usersStore = [k \in { u._id : u \in us } |-> CHOOSE u \in us : u._id = k]
          /\ reportsStore = [k \in { r.id : r \in rs } |-> CHOOSE r \in rs : r.id = k]
          /\ dbVersion = IF us = {} /\ rs = {} THEN 0 ELSE DB_VERSION
          /\ objectStoreNames = IF us = {} /\ rs = {} THEN {} ELSE StoreNames
          /\ writeLog = [s \in StoreNames |->
                            [k \in (IF s = STORE_USERS THEN { u._id : u \in us }
                                                        ELSE { r.id : r \in rs }) |-> <<0>>]]
    /\ task = [t \in TaskIds |-> IdleTask]
    /\ timers = <<>>
    /\ openQ = <<>>
    /\ txQ = [s \in StoreNames |-> <<>>]
    /\ clock = SeedClock
    /\ currentUserRole = GUEST
    /\ currentPatientName = ""
    /\ currentUserId = NullId
    /\ currentUserProfile = NullProfile
    /\ reports = <<>>
    /\ availableDoctors = <<>>
    /\ isLoading = FALSE

Init == InitWith(SUBSET SeedUsers, SUBSET SeedReports)

\* The steps every call is made of.
CommonSteps(t) ==
    \/ DelayElapsed(t)
    \/ OpenSuccess(t)
    \/ OpenError(t)
    \/ RequestError(t)

\* The auth services and the profile update, called directly.
NextUsers ==
    \E t \in 1..MaxTasks :
        \/ registerUser(t)
        \/ loginUser(t)
        \/ updateUserInDb(t)
        \/ fetchAvailableDoctors(t)
        \/ CommonSteps(t)
        \/ ExecCheck(t)
        \/ ExecAdd(t)
        \/ ExecLogin(t)
        \/ ExecGet(t)
        \/ ExecPut(t)
        \/ ExecGetAll(t)

SpecUsers == InitWith(SUBSET SeedUsers, {{}}) /\ [][NextUsers]_vars

\* The report services, called directly.
NextReports ==
    \E t \in 1..MaxTasks :
        \/ saveReportToDb(t)
        \/ fetchPatientReports(t)
        \/ fetchReportsForSpecificDoctor(t)
        \/ updateReportInDb(t)
        \/ CommonSteps(t)
        \/ ExecGet(t)
        \/ ExecPut(t)
        \/ ExecGetAll(t)
        \/ ExecSave(t)

SpecReports == InitWith({{}}, SUBSET SeedReports) /\ [][NextReports]_vars

\* The two merge-updates beside a writer and a reader of the reports.
NextUpdates ==
    \E t \in 1..MaxTasks :
        \/ updateUserInDb(t)
        \/ updateReportInDb(t)
        \/ saveReportToDb(t)
        \/ fetchReportsForSpecificDoctor(t)
        \/ CommonSteps(t)
        \/ ExecGet(t)
        \/ ExecPut(t)
        \/ ExecGetAll(t)
        \/ ExecSave(t)

SpecUpdates ==
    InitWith({{}, SeedUsers}, {{}, SeedReports}) /\ [][NextUpdates]_vars

\* The whole service layer, every exported function called directly.
NextDb ==
    \E t \in 1..MaxTasks :
        \/ registerUser(t)
        \/ loginUser(t)
        \/ updateUserInDb(t)
        \/ fetchAvailableDoctors(t)
        \/ saveReportToDb(t)
        \/ fetchPatientReports(t)
        \/ fetchReportsForSpecificDoctor(t)
        \/ updateReportInDb(t)
        \/ CommonSteps(t)
        \/ ExecCheck(t)
        \/ ExecAdd(t)
        \/ ExecLogin(t)
        \/ ExecGet(t)
        \/ ExecPut(t)
        \/ ExecGetAll(t)
        \/ ExecSave(t)

SpecDb == InitWith({{}, SeedUsers}, {{}, SeedReports}) /\ [][NextDb]_vars

\* The application store with patients saving reports beside it.
NextApp ==
    \/ setAuth
    \/ \E t \in 1..MaxAppTasks :
        \/ loadReports(t)
        \/ updateReportStatus(t)
        \/ saveReportToDb(t)
        \/ CommonSteps(t)
        \/ ExecGet(t)
        \/ ExecPut(t)
        \/ ExecGetAll(t)
        \/ ExecSave(t)

SpecApp == InitWith({SeedUsers}, {{}, SeedReports}) /\ [][NextApp]_vars


\* The two writers of new records beside the calls that read records back.
NextRoundTrip ==
    \E t \in 1..MaxTasks :
        \/ registerUser(t)
        \/ updateUserInDb(t)
        \/ saveReportToDb(t)
        \/ fetchPatientReports(t)
        \/ CommonSteps(t)
        \/ ExecCheck(t)
        \/ ExecAdd(t)
        \/ ExecGet(t)
        \/ ExecPut(t)
        \/ ExecGetAll(t)
        \/ ExecSave(t)

SpecRoundTrip ==
    InitWith({{}, SeedUsers}, {{}, SeedReports}) /\ [][NextRoundTrip]_vars

\* The application store alone: every asynchronous action of store.ts over
\* a database that is empty or holds the seed records.
NextStore ==
    \/ setAuth
    \/ \E t \in 1..MaxTasks :
        \/ loadReports(t)
        \/ loadDoctors(t)
        \/ updateReportStatus(t)
        \/ updateProfile(t)
        \/ CommonSteps(t)
        \/ ExecGet(t)
        \/ ExecPut(t)
        \/ ExecGetAll(t)

SpecStore ==
    InitWith({{}, SeedUsers}, {{}, SeedReports}) /\ [][NextStore]_vars

\* The event loop runs every callback that is due: a pending timer fires,
\* a pending open request is answered (with success or with an error) and a
\* request whose transaction can run is served (or fails).
FairSteps(t) ==
    /\ WF_vars(DelayElapsed(t))
    /\ WF_vars(OpenSuccess(t) \/ OpenError(t))
    /\ WF_vars(RequestError(t) \/ ExecGetAll(t))

\* loadReports alone, in any session.
NextLoad ==
    \/ setAuth
    \/ \E t \in 1..MaxTasks :
        \/ loadReports(t)
        \/ CommonSteps(t)
        \/ ExecGetAll(t)

SpecLoadFair ==
    /\ InitWith({SeedUsers}, SUBSET SeedReports)
    /\ [][NextLoad]_vars
    /\ \A t \in 1..MaxTasks : FairSteps(t)

FairDbSteps(t) ==
    /\ WF_vars(DelayElapsed(t))
    /\ WF_vars(OpenSuccess(t) \/ OpenError(t))
    /\ WF_vars(RequestError(t) \/ ExecCheck(t) \/ ExecAdd(t) \/ ExecLogin(t) \/ ExecGet(t)
                  \/ ExecPut(t) \/ ExecGetAll(t) \/ ExecSave(t))

SpecDbFair ==
    /\ InitWith({{}, SeedUsers}, {{}, SeedReports})
    /\ [][NextDb]_vars
    /\ \A t \in 1..MaxTasks : FairDbSteps(t)

\* ------------------------------------------------------------------ claims
\* The call that wrote the record under key k of store s last (0: an
\* earlier session).
LastWriter(s, k) == writeLog[s][k][Len(writeLog[s][k])]

MergeTasks == { t \in TaskIds : task[t].op \in MergeOps }

EngineErrors == {"OpenError", "RequestError"}
DuplicateErrors == {"UserExists", "ConstraintError"}

RegisterTasks == { t \in TaskIds : task[t].op = "registerUser" }

UsersWithEmail(email) == IndexGetKeys(usersStore, "email", email)

\* Two registerUser calls with the same email that both ran to their end
\* without an engine failure.
RegisteredTwice(t, u) ==
    /\ t # u
    /\ t \in RegisterTasks /\ u \in RegisterTasks
    /\ task[t].args.email = task[u].args.email
    /\ task[t].pc = "done" /\ task[u].pc = "done"
    /\ task[t].error \notin EngineErrors /\ task[u].error \notin EngineErrors

\* C1 (email uniqueness).  In every interleaving of the existence checks and
\* the inserts of registerUser calls: no two user records share an email;
\* two calls with the same email never both succeed; once both have ended
\* (without an engine failure) exactly one record has that email and one of
\* the calls has failed as a duplicate; and no step of a registerUser call
\* removes or alters a record that was already stored.
C1_EmailUnique ==
    /\ [](\A k1 \in DOMAIN usersStore, k2 \in DOMAIN usersStore :
            usersStore[k1].email = usersStore[k2].email => k1 = k2)
    /\ [](\A t \in TaskIds, u \in TaskIds :
            RegisteredTwice(t, u) =>
                /\ ~(Resolved(t) /\ Resolved(u))
                /\ Cardinality(UsersWithEmail(task[t].args.email)) = 1
                /\ \E w \in {t, u} : Rejected(w) /\ task[w].error \in DuplicateErrors)
    /\ [][\A t \in RegisterTasks :
            task'[t].pc # task[t].pc =>
                \A k \in DOMAIN usersStore :
                    k \in DOMAIN usersStore' /\ usersStore'[k] = usersStore[k]]_vars

\* C1 witness: both existence checks found nothing, the first insert was
\* stored and the second insert failed on the unique email index.
C1_Witness ==
    \E t \in TaskIds, u \in TaskIds :
        /\ RegisteredTwice(t, u)
        /\ Resolved(t)
        /\ Rejected(u) /\ task[u].error = "ConstraintError"
        /\ UsersWithEmail(task[t].args.email) = {task[t].data._id}

\* A merge-update between its read and its write.
InMergeWindow(t) == t \in MergeTasks /\ task[t].pc = "put"

\* C2 (merge-update atomicity).  While a merge-update is between its read
\* and its write the stored record is still the one it read, and no other
\* call's request on that object store is served; and when two
\* merge-updates wrote the same record one after the other, the second read
\* exactly what the first wrote, so the stored record is both updates
\* applied in that order.
C2_MergeAtomic ==
    /\ [](\A t \in TaskIds :
            InMergeWindow(t) =>
                LET store == TheStore(StoreOf(task[t].op))
                IN  /\ task[t].args.id \in DOMAIN store
                    /\ store[task[t].args.id] = task[t].data)
    /\ [][\A t \in TaskIds, u \in TaskIds :
            (/\ InMergeWindow(t)
             /\ u # t
             /\ StoreOf(task[u].op) = StoreOf(task[t].op)
             /\ task[u].pc \in RequestPcs) => task'[u].pc = task[u].pc]_vars
    /\ [](\A s \in StoreNames : \A k \in DOMAIN writeLog[s] :
            \A i \in 2..Len(writeLog[s][k]) :
                LET t == writeLog[s][k][i - 1]
                    u == writeLog[s][k][i]
                IN  (t \in MergeTasks /\ u \in MergeTasks) =>
                        /\ task[u].data = Merge(task[t].data, task[t].args.updates)
                        /\ i = Len(writeLog[s][k]) =>
                              TheStore(s)[k] = Merge(Merge(task[t].data, task[t].args.updates),
                                                     task[u].args.updates))

\* C2 witness: a merge-update has read its record and not yet written it
\* while a second merge-update of the same record, with another update,
\* already has its transaction and waits.
C2_Witness ==
    \E t \in TaskIds, u \in TaskIds :
        /\ InMergeWindow(t)
        /\ u \in MergeTasks /\ u # t
        /\ task[u].op = task[t].op
        /\ task[u].pc = "get"
        /\ task[u].args.id = task[t].args.id
        /\ task[u].args.updates # task[t].args.updates

\* The record stored under a merge-update's id before and after a step.
OldRecord(t) == TheStore(StoreOf(task[t].op))[task[t].args.id]
NewRecord(t) ==
    IF StoreOf(task[t].op) = STORE_USERS THEN usersStore'[task[t].args.id]
                                         ELSE reportsStore'[task[t].args.id]

\* C3 (merge semantics).  The step in which a merge-update succeeds leaves,
\* under its id, the shallow merge of the update over the record stored
\* before the step: the fields are those of the old record and of the
\* update, every field named in the update has the update's value and every
\* other field keeps its previous value.
C3_MergeSemantics ==
    [][\A t \in MergeTasks :
        (task[t].pc = "put" /\ task'[t].pc = "done" /\ task'[t].outcome = "resolved") =>
            /\ task[t].args.id \in DOMAIN TheStore(StoreOf(task[t].op))
            /\ DOMAIN NewRecord(t) = DOMAIN OldRecord(t) \cup DOMAIN task[t].args.updates
            /\ \A f \in DOMAIN task[t].args.updates :
                  NewRecord(t)[f] = task[t].args.updates[f]
            /\ \A f \in DOMAIN OldRecord(t) \ DOMAIN task[t].args.updates :
                  NewRecord(t)[f] = OldRecord(t)[f]]_vars

\* C3 witness: a merge-update that succeeded, last to write its record; the
\* stored record differs from the record it read in the updated fields and
\* still has the other fields of the record it read.
C3_Witness ==
    \E t \in MergeTasks :
        /\ Resolved(t)
        /\ LastWriter(StoreOf(task[t].op), task[t].args.id) = t
        /\ OldRecord(t) # task[t].data
        /\ \A f \in DOMAIN task[t].args.updates : OldRecord(t)[f] = task[t].args.updates[f]
        /\ \E f \in DOMAIN task[t].data \ DOMAIN task[t].args.updates :
              OldRecord(t)[f] = task[t].data[f]

\* C4 (merge-update of a missing id).  When the read of a merge-update is
\* answered and no record is stored under its id, the call fails, with
\* NotFound unless the read request itself failed in the engine, and the
\* step leaves both object stores exactly as they were; a call that failed
\* with NotFound never wrote anything.
C4_NotFound ==
    /\ [][\A t \in MergeTasks :
            (/\ task[t].pc = "get"
             /\ task'[t].pc # "get"
             /\ task[t].args.id \notin DOMAIN TheStore(StoreOf(task[t].op))) =>
                /\ task'[t].pc = "done"
                /\ task'[t].outcome = "rejected"
                /\ task'[t].error \in {"NotFound", "RequestError"}
                /\ usersStore' = usersStore
                /\ reportsStore' = reportsStore]_vars
    /\ [](\A t \in MergeTasks :
            (task[t].pc = "done" /\ task[t].error = "NotFound") =>
                \A s \in StoreNames : \A k \in DOMAIN writeLog[s] :
                    t \notin Range(writeLog[s][k]))
    /\ [](\A t \in MergeTasks :
            Resolved(t) => t \in Range(writeLog[StoreOf(task[t].op)][task[t].args.id]))

\* C4 witness: a merge-update failed with NotFound and no record is stored
\* under its id.
C4_Witness ==
    \E t \in MergeTasks :
        /\ Rejected(t)
        /\ task[t].error = "NotFound"
        /\ task[t].args.id \notin DOMAIN TheStore(StoreOf(task[t].op))

FetchReportTasks ==
    { t \in TaskIds : task[t].op \in {"fetchPatientReports", "fetchReportsForSpecificDoctor"} }

\* The reports a fetch has to return: those whose indexed field is its key.
Matching(t) ==
    IF task[t].op = "fetchPatientReports"
    THEN { reportsStore[k] : k \in { j \in DOMAIN reportsStore :
                                        reportsStore[j].userId = task[t].args.userId } }
    ELSE { reportsStore[k] : k \in { j \in DOMAIN reportsStore :
                                        reportsStore[j].targetDoctorId = task[t].args.doctorId } }

\* C5 (index correctness and ordering).  The step in which
\* fetchReportsForSpecificDoctor(D) or fetchPatientReports(P) resolves gives
\* it exactly the stored reports whose targetDoctorId is D, or whose userId
\* is P, each once, in descending order of timestamp.
C5_IndexFetch ==
    [][\A t \in FetchReportTasks :
        (task[t].pc = "getAll" /\ task'[t].pc = "done" /\ task'[t].outcome = "resolved") =>
            /\ Range(task'[t].result) = Matching(t)
            /\ Len(task'[t].result) = Cardinality(Matching(t))
            /\ \A i \in 1..Len(task'[t].result), j \in 1..Len(task'[t].result) :
                  i < j => task'[t].result[i].timestamp >= task'[t].result[j].timestamp]_vars

\* C5 witness: a fetch resolved with two or more reports, the first newer
\* than the second although its key is the greater one, while the store
\* holds a report that does not belong to the result.
C5_Witness ==
    \E t \in FetchReportTasks :
        /\ Resolved(t)
        /\ Len(task[t].result) >= 2
        /\ task[t].result[1].timestamp > task[t].result[2].timestamp
        /\ IndexOf(KeyOrder, task[t].result[1].id) > IndexOf(KeyOrder, task[t].result[2].id)
        /\ \E k \in DOMAIN reportsStore : reportsStore[k] \notin Range(task[t].result)

StatusTasks == { t \in TaskIds : task[t].caller = "updateReportStatus" }
LoadTasks == { t \in TaskIds : task[t].caller = "loadReports" }
SaveTasks == { t \in TaskIds : task[t].op = "saveReportToDb" }

\* C6 (optimistic-update visibility).  The step that calls
\* updateReportStatus(id, status, notes) ends with every in-memory report of
\* that id carrying the new status and notes, while the merge-update it
\* issues is still in its delay: no transaction exists for it and the
\* stored reports are those from before the call.
C6_OptimisticVisible ==
    [][\A t \in TaskIds :
        (task[t].pc = "idle" /\ task'[t].caller = "updateReportStatus") =>
            /\ task'[t].pc = "delay"
            /\ t \notin Range(txQ'[STORE_REPORTS])
            /\ reportsStore' = reportsStore
            /\ Len(reports') = Len(reports)
            /\ \A i \in DOMAIN reports' :
                  reports'[i].id = task'[t].args.id =>
                      /\ reports'[i].status = task'[t].args.updates.status
                      /\ reports'[i].doctorNotes = task'[t].args.updates.doctorNotes]_vars

\* C6 witness: updateReportStatus has been called and its write has not
\* started; the in-memory report has the new status, the stored one has not.
C6_Witness ==
    \E t \in StatusTasks :
        /\ task[t].pc = "delay"
        /\ task[t].args.id \in DOMAIN reportsStore
        /\ reportsStore[task[t].args.id].status # task[t].args.updates.status
        /\ \E i \in DOMAIN reports :
              /\ reports[i].id = task[t].args.id
              /\ reports[i].status = task[t].args.updates.status
              /\ reports[i].doctorNotes = task[t].args.updates.doctorNotes

\* The stored reports routed to doctor d.
RoutedTo(d) ==
    { reportsStore[k] : k \in { j \in DOMAIN reportsStore :
                                   reportsStore[j].targetDoctorId = d } }

\* The step in which the fetch of loadReports call t resolves.
LoadResolves(t) ==
    /\ t \in LoadTasks
    /\ task[t].pc = "getAll"
    /\ task'[t].pc = "done" /\ task'[t].outcome = "resolved"

\* A report that fetch t has to return: stored under id with the fetch's key.
Covers(t, id) ==
    /\ id \in DOMAIN reportsStore
    /\ reportsStore[id] \in Matching(t)

\* The fetch result holds report id with the status and notes update u set.
ReturnsUpdated(result, u) ==
    \E i \in DOMAIN result :
        /\ result[i].id = task[u].args.id
        /\ result[i].status = task[u].args.updates.status
        /\ result[i].doctorNotes = task[u].args.updates.doctorNotes

\* C9 as stated, second half: once updateReportStatus(R.id, status, notes)
\* has completed successfully, every fetch started afterwards that covers R
\* returns R with that status and those notes.
C9_Original ==
    [][\A f \in LoadTasks, u \in StatusTasks :
        (/\ LoadResolves(f)
         /\ u \in task[f].before
         /\ Resolved(u)
         /\ Covers(f, task[u].args.id)) => ReturnsUpdated(task'[f].result, u)]_vars

\* C9 (end-to-end routing and persistence), amended.  When a loadReports of
\* doctor D's session completes with no other call in flight, the held
\* collection is exactly the stored reports routed to D, each once, among
\* them every report a completed saveReportToDb routed to D and nothing
\* overwrote since; and a fetch started after updateReportStatus(R.id,
\* status, notes) completed successfully returns R with that status and
\* those notes provided that update is still the last write to R.
C9_EndToEnd ==
    /\ [][\A f \in LoadTasks :
            (/\ LoadResolves(f)
             /\ task[f].op = "fetchReportsForSpecificDoctor"
             /\ \A u \in TaskIds \ {f} : ~Pending(u)) =>
                /\ Range(reports') = RoutedTo(task[f].args.doctorId)
                /\ Len(reports') = Cardinality(RoutedTo(task[f].args.doctorId))
                /\ \A s \in SaveTasks :
                      (/\ Resolved(s)
                       /\ LastWriter(STORE_REPORTS, task[s].args.report.id) = s
                       /\ task[s].args.report.targetDoctorId = task[f].args.doctorId) =>
                          \E i \in DOMAIN reports' : reports'[i].id = task[s].args.report.id]_vars
    /\ [][\A f \in LoadTasks, u \in StatusTasks :
            (/\ LoadResolves(f)
             /\ u \in task[f].before
             /\ Resolved(u)
             /\ LastWriter(STORE_REPORTS, task[u].args.id) = u
             /\ Covers(f, task[u].args.id)) => ReturnsUpdated(task'[f].result, u)]_vars

\* C9 witness: a report routed to doctor user_2 was saved, the status of
\* another was updated, and a loadReports of that doctor's session, started
\* after both had completed, holds both, the second with the new status.
C9_Witness ==
    \E s \in SaveTasks, u \in StatusTasks, f \in LoadTasks :
        /\ Resolved(s) /\ Resolved(u) /\ Resolved(f)
        /\ {s, u} \subseteq task[f].before
        /\ task[f].op = "fetchReportsForSpecificDoctor"
        /\ task[s].args.report.targetDoctorId = task[f].args.doctorId
        /\ \E i \in DOMAIN reports : reports[i].id = task[s].args.report.id
        /\ ReturnsUpdated(reports, u)
        /\ task[s].args.report.id # task[u].args.id

\* C7 (loading is always released).  Every loadReports call that set
\* isLoading and went into its fetch eventually reaches its finally block,
\* which clears isLoading: whether the fetch succeeds, fails in the query or
\* fails because the store cannot be opened.
C7_LoadingReleased ==
    \A t \in TaskIds :
        (task[t].caller = "loadReports" /\ Pending(t)) ~> (task[t].pc = "done")

\* C8 (every store operation settles).  Every issued service call
\* eventually completes, resolved or rejected; none stays pending for ever.
C8_EverySettles ==
    \A t \in TaskIds : (task[t].pc = "delay") ~> (task[t].pc = "done")

\* What registerUser call r was asked to store: its arguments, the
\* specialization defaulting to the empty string.
AsRegistered(rec, r) ==
    /\ rec.email = task[r].args.email
    /\ rec.password = task[r].args.pass
    /\ rec.name = task[r].args.name
    /\ rec.role = task[r].args.role
    /\ rec.specialization = (IF task[r].args.specialization = Undefined
                              THEN "" ELSE task[r].args.specialization)
    /\ rec = task[r].data

\* What saveReportToDb call s was asked to store.
AsSaved(rec, s) == Without(rec, "updatedAt") = Without(task[s].args.report, "updatedAt")

\* C10 (round trip).  As long as nothing else has written its id, the
\* record a completed saveReportToDb stored equals the report it was given
\* in every field but updatedAt, and a fetch returns it so; the record a
\* completed registerUser stored equals the user it built from its
\* arguments, and a read by primary key returns it so.
C10_RoundTrip ==
    /\ [](\A s \in SaveTasks :
            (Resolved(s) /\ LastWriter(STORE_REPORTS, task[s].args.report.id) = s) =>
                AsSaved(reportsStore[task[s].args.report.id], s))
    /\ [][\A f \in FetchReportTasks :
            (task[f].pc = "getAll" /\ task'[f].pc = "done" /\ task'[f].outcome = "resolved") =>
                \A i \in DOMAIN task'[f].result :
                    LastWriter(STORE_REPORTS, task'[f].result[i].id) \in SaveTasks =>
                        AsSaved(task'[f].result[i],
                                LastWriter(STORE_REPORTS, task'[f].result[i].id))]_vars
    /\ [](\A r \in RegisterTasks :
            (Resolved(r) /\ LastWriter(STORE_USERS, task[r].data._id) = r) =>
                AsRegistered(usersStore[task[r].data._id], r))
    /\ [][\A t \in MergeTasks :
            (/\ task[t].op = "updateUserInDb"
             /\ task[t].pc = "get" /\ task'[t].pc = "put"
             /\ LastWriter(STORE_USERS, task[t].args.id) \in RegisterTasks) =>
                AsRegistered(task'[t].data, LastWriter(STORE_USERS, task[t].args.id))]_vars

\* C10 witness: registerUser stored a user and a later read by primary key
\* (the get of updateUserInDb) returned the record as registered.
C10_Witness ==
    \E r \in RegisterTasks, t \in MergeTasks :
        /\ Resolved(r)
        /\ task[t].op = "updateUserInDb"
        /\ task[t].pc = "put"
        /\ task[t].args.id = task[r].data._id
        /\ AsRegistered(task[t].data, r)

\* A report stored by saveReportToDb was read back by a fetch.
C10_ReportReadBack ==
    \E s \in SaveTasks, f \in FetchReportTasks :
        /\ Resolved(s) /\ Resolved(f)
        /\ \E i \in DOMAIN task[f].result :
              /\ task[f].result[i].id = task[s].args.report.id
              /\ task[f].result[i].updatedAt > SeedClock - 1
              /\ AsSaved(task[f].result[i], s)

\* The step in which the indexedDB.open request of call t succeeds.
OpenStep(t) == task[t].pc \in {"open", "openAdd"} /\ task'[t].pc \in RequestPcs

\* C11 (idempotent open).  A successful open leaves every stored record as
\* it was; the first-ever open (no database yet) creates the two object
\* stores, and an open of the existing database creates and removes
\* nothing: once the database exists its version and its object stores
\* never change again.
C11_IdempotentOpen ==
    /\ [][\A t \in TaskIds :
            OpenStep(t) =>
                /\ usersStore' = usersStore
                /\ reportsStore' = reportsStore
                /\ dbVersion' = DB_VERSION
                /\ objectStoreNames' =
                      (IF dbVersion < DB_VERSION THEN objectStoreNames \cup StoreNames
                                                 ELSE objectStoreNames)]_vars
    /\ [][dbVersion = DB_VERSION =>
            (dbVersion' = dbVersion /\ objectStoreNames' = objectStoreNames)]_vars
    /\ [](dbVersion = DB_VERSION => objectStoreNames = StoreNames)
    /\ [](dbVersion < DB_VERSION =>
            (objectStoreNames = {} /\ DOMAIN usersStore = {} /\ DOMAIN reportsStore = {}))

\* C11 witness: a merge-update changed a record and completed, a call
\* issued afterwards has opened the database, and the record is still
\* stored as the merge-update wrote it.
C11_Witness ==
    \E u \in MergeTasks, f \in TaskIds :
        /\ Resolved(u)
        /\ u \in task[f].before
        /\ task[f].pc \in RequestPcs
        /\ OldRecord(u) = Merge(task[u].data, task[u].args.updates)
        /\ OldRecord(u) # task[u].data

DoctorTasks == { t \in TaskIds : task[t].caller = "loadDoctors" }

\* The step in which call t fails: its promise rejects, or nothing can
\* settle it any more.
FailStep(t) ==
    /\ Pending(t)
    /\ \/ task'[t].pc = "done" /\ task'[t].outcome = "rejected"
       \/ task'[t].pc = "hung"

\* C12 (read paths keep prior state on failure).  Neither the step that
\* calls loadReports and goes into its fetch nor the step in which that
\* fetch fails changes the held reports, and likewise loadDoctors and the
\* cached doctors; whatever way the fetch fails, no error reaches the
\* caller of loadReports or loadDoctors.
C12_ReadsKeepState ==
    /\ [][\A t \in TaskIds :
            (task[t].pc = "idle" /\ task'[t].pc = "delay") =>
                /\ task'[t].caller = "loadReports" => reports' = reports
                /\ task'[t].caller = "loadDoctors" => availableDoctors' = availableDoctors]_vars
    /\ [][\A t \in TaskIds :
            FailStep(t) =>
                /\ t \in LoadTasks => reports' = reports
                /\ t \in DoctorTasks => availableDoctors' = availableDoctors]_vars
    /\ [](\A t \in LoadTasks \cup DoctorTasks : ~Propagates(t))

\* C12 witness: a loadReports filled the collection, a second one issued
\* afterwards failed, and the collection is still what the first fetched.
C12_Witness ==
    \E f \in LoadTasks, g \in LoadTasks :
        /\ Resolved(f)
        /\ f \in task[g].before
        /\ Rejected(g)
        /\ reports # <<>>
        /\ reports = task[f].result

\* A loadDoctors filled the cache, a second one issued afterwards failed,
\* and the cache is still what the first fetched.
C12_DoctorsKept ==
    \E f \in DoctorTasks, g \in DoctorTasks :
        /\ Resolved(f)
        /\ f \in task[g].before
        /\ task[g].pc \in {"done", "hung"} /\ ~Resolved(g)
        /\ availableDoctors # <<>>
        /\ availableDoctors = task[f].result

\* The record first stored under key k of object store s: an earlier
\* session's, or the one the first call to write the key stored.
FirstStored(s, k) ==
    LET w == writeLog[s][k][1]
    IN  IF w # 0 THEN task[w].data
        ELSE IF s = STORE_USERS THEN CHOOSE u \in SeedUsers : u._id = k
                                ELSE CHOOSE r \in SeedReports : r.id = k

\* C13 (report routing fields are immutable).  In every reachable state
\* each stored report has the userId and the targetDoctorId of the report
\* first stored under its id.
C13_RoutingImmutable ==
    \A k \in DOMAIN reportsStore :
        /\ reportsStore[k].userId = FirstStored(STORE_REPORTS, k).userId
        /\ reportsStore[k].targetDoctorId = FirstStored(STORE_REPORTS, k).targetDoctorId

\* C14 (user role is immutable).  In every reachable state each stored
\* user has the role, the id and the creation time of the user first
\* stored under its id.
C14_RoleImmutable ==
    \A k \in DOMAIN usersStore :
        /\ usersStore[k].role = FirstStored(STORE_USERS, k).role
        /\ usersStore[k]._id = FirstStored(STORE_USERS, k)._id
        /\ usersStore[k].createdAt = FirstStored(STORE_USERS, k).createdAt

\* C15 (stale-read race).  When the fetch of a loadReports is answered
\* while an updateReportStatus of a report it covers is still pending, the
\* store has not received that write, the fetch returns the report as it
\* is stored, and the held collection is replaced with that result.
C15_StaleReadRace ==
    [][\A f \in LoadTasks, u \in StatusTasks :
        (LoadResolves(f) /\ Pending(u) /\ Covers(f, task[u].args.id)) =>
            /\ u \notin Range(writeLog[STORE_REPORTS][task[u].args.id])
            /\ reports' = task'[f].result
            /\ \E i \in DOMAIN reports' : reports'[i] = reportsStore[task[u].args.id]]_vars

\* C15 witness: a first loadReports brought report R into memory;
\* updateReportStatus(R.id, ...) was then called while a second loadReports
\* was in flight; the second fetch has resolved, the write is still
\* pending, and the held collection shows R with a status other than the
\* one the update set.
C15_Witness ==
    \E g \in LoadTasks, f \in LoadTasks, u \in StatusTasks :
        /\ g # f
        /\ g \in task[u].before /\ Resolved(g)
        /\ \E i \in DOMAIN task[g].result : task[g].result[i].id = task[u].args.id
        /\ f \notin task[u].before /\ Resolved(f)
        /\ Pending(u)
        /\ reports = task[f].result
        /\ \E i \in DOMAIN reports :
              /\ reports[i].id = task[u].args.id
              /\ reports[i].status # task[u].args.updates.status

ProfileTasks == { t \in TaskIds : task[t].caller = "updateProfile" }

\* No call was issued after call u: every other call had completed when u
\* was issued.
NothingSince(u) ==
    \A t \in TaskIds \ {u} : task[t].pc = "idle" \/ t \in task[u].before

\* C16 (no rollback on a failed write).  The step in which the merge-update
\* issued by updateReportStatus or updateProfile fails changes neither the
\* in-memory state nor the store; the failure does not reach the caller and
\* the store never receives the update; and as long as no other call has
\* been issued since, every held report of that id still carries the
\* status and notes of the failed update.
C16_NoRollback ==
    /\ [][\A u \in StatusTasks \cup ProfileTasks :
            FailStep(u) =>
                /\ reports' = reports
                /\ currentUserProfile' = currentUserProfile
                /\ currentPatientName' = currentPatientName
                /\ usersStore' = usersStore
                /\ reportsStore' = reportsStore]_vars
    /\ [](\A u \in StatusTasks \cup ProfileTasks :
            Rejected(u) =>
                /\ ~Propagates(u)
                /\ \A k \in DOMAIN writeLog[StoreOf(task[u].op)] :
                      u \notin Range(writeLog[StoreOf(task[u].op)][k]))
    /\ [](\A u \in StatusTasks :
            (Rejected(u) /\ NothingSince(u)) =>
                \A i \in DOMAIN reports :
                    reports[i].id = task[u].args.id =>
                        /\ reports[i].status = task[u].args.updates.status
                        /\ reports[i].doctorNotes = task[u].args.updates.doctorNotes)

\* C16 witness: a report was loaded, updateReportStatus was called on it
\* and its write failed; the held report carries the new status and the
\* stored report does not.
C16_Witness ==
    \E g \in LoadTasks, u \in StatusTasks :
        /\ Resolved(g) /\ g \in task[u].before
        /\ Rejected(u)
        /\ task[u].args.id \in DOMAIN reportsStore
        /\ reportsStore[task[u].args.id].status # task[u].args.updates.status
        /\ \E i \in DOMAIN reports :
              /\ reports[i].id = task[u].args.id
              /\ reports[i].status = task[u].args.updates.status

\* updateProfile was called and its write failed; the in-memory profile
\* carries the update and the stored user does not.
C16_ProfileAhead ==
    \E u \in ProfileTasks :
        /\ Rejected(u)
        /\ currentUserId = task[u].args.id
        /\ task[u].args.id \in DOMAIN usersStore
        /\ \E f \in DOMAIN task[u].args.updates :
              /\ currentUserProfile[f] = task[u].args.updates[f]
              /\ usersStore[task[u].args.id][f] # task[u].args.updates[f]

\* C17 (the held collection belongs to the active identity).  In every
\* reachable state every held report is owned by the current user in a
\* patient session and routed to the current user in a doctor session.
C17_BelongsToIdentity ==
    \A i \in DOMAIN reports :
        /\ currentUserRole = PATIENT => reports[i].userId = currentUserId
        /\ currentUserRole = DOCTOR => reports[i].targetDoctorId = currentUserId

\* The doctorNotes of a report; a report without the field has none.
Notes(r) == IF "doctorNotes" \in DOMAIN r THEN r.doctorNotes ELSE Undefined

\* Every issued loadReports and updateReportStatus has completed.
Quiescent == \A t \in LoadTasks \cup StatusTasks : task[t].pc = "done"

\* No store write failed.
NoWriteFailed == \A u \in StatusTasks : ~Rejected(u)

\* Every held report has the status and the notes of the stored report of
\* the same id.
Converged ==
    \A i \in DOMAIN reports :
        /\ reports[i].id \in DOMAIN reportsStore
        /\ reports[i].status = reportsStore[reports[i].id].status
        /\ Notes(reports[i]) = Notes(reportsStore[reports[i].id])

\* No updateReportStatus was called while a loadReports issued before it
\* was still in flight.
NoUpdateDuringLoad ==
    \A u \in StatusTasks, f \in LoadTasks : f < u => f \in task[u].before

\* C18 as stated: whenever every issued loadReports and updateReportStatus
\* has completed and no store write failed, the held reports agree with the
\* stored ones in status and notes.
C18_Original == (Quiescent /\ NoWriteFailed) => Converged

\* C18 (quiescent convergence), amended.  Whenever every issued
\* loadReports and updateReportStatus has completed, no store write failed
\* and no updateReportStatus was called while an earlier loadReports was
\* still in flight, the held reports agree with the stored ones in status
\* and notes.
C18_Convergence ==
    [](Quiescent /\ NoWriteFailed /\ NoUpdateDuringLoad => Converged)

\* C18 witness: a loadReports completed, then updateReportStatus changed a
\* report it had fetched and completed; the held and the stored report
\* both carry the new status.
C18_Witness ==
    \E f \in LoadTasks, u \in StatusTasks :
        /\ Resolved(f) /\ f \in task[u].before
        /\ Resolved(u)
        /\ Quiescent /\ NoWriteFailed /\ NoUpdateDuringLoad
        /\ reportsStore[task[u].args.id].status = task[u].args.updates.status
        /\ \E i \in DOMAIN reports :
              /\ reports[i].id = task[u].args.id
              /\ reports[i].status = task[u].args.updates.status

\* C19 (isLoading tracks the loads in flight).  In every reachable state
\* isLoading is true whenever the fetch of some loadReports is pending.
C19_LoadingTracks ==
    (\E t \in LoadTasks : Pending(t)) => isLoading = TRUE

\* A report without its status and its notes.
Rest(r) == [g \in DOMAIN r \ {"status", "doctorNotes"} |-> r[g]]

\* What updateReportStatus(id, status, notes) is to make of report r: the
\* new status, the new notes (the notes r had when called without notes)
\* and every other field as it was.
StatusApplied(new, old, updates) ==
    /\ Rest(new) = Rest(old)
    /\ new.status = updates.status
    /\ Notes(new) = (IF updates.doctorNotes = Undefined THEN Notes(old)
                                                          ELSE updates.doctorNotes)

\* C20 (frame of updateReportStatus).  The step that calls
\* updateReportStatus changes, in memory, only the reports of its id, and
\* of those only status and notes; the step in which its write lands
\* changes, in the store, only the report of its id, and of it only status
\* and notes, and nothing in memory; a call without notes keeps the notes
\* the report had.
C20_Frame ==
    /\ [][\A t \in TaskIds :
            (task[t].pc = "idle" /\ task'[t].caller = "updateReportStatus") =>
                /\ UNCHANGED <<currentUserRole, currentPatientName, currentUserId,
                               currentUserProfile, availableDoctors, isLoading>>
                /\ UNCHANGED <<usersStore, reportsStore>>
                /\ DOMAIN reports' = DOMAIN reports
                /\ \A i \in DOMAIN reports :
                      IF reports[i].id = task'[t].args.id
                      THEN StatusApplied(reports'[i], reports[i], task'[t].args.updates)
                      ELSE reports'[i] = reports[i]]_vars
    /\ [][\A u \in StatusTasks :
            (task[u].pc = "put" /\ task'[u].pc = "done" /\ task'[u].outcome = "resolved") =>
                /\ UNCHANGED appVars
                /\ usersStore' = usersStore
                /\ DOMAIN reportsStore' = DOMAIN reportsStore
                /\ \A k \in DOMAIN reportsStore :
                      IF k = task[u].args.id
                      THEN StatusApplied(reportsStore'[k], reportsStore[k], task[u].args.updates)
                      ELSE reportsStore'[k] = reportsStore[k]]_vars
====
